---------------------------- MODULE Spec2Model ----------------------------
(***************************************************************************)
(* The analyze-health route handler (POST) of 0xkyouma/phdv:                *)
(* src/src/app/api/analyze-health/route.ts, with the constants of          *)
(* src/unnamed/part_000 (the '@/types/health' module).                     *)
(*                                                                         *)
(* A text (a JavaScript string) is a sequence of characters (UTF-16 code    *)
(* units), each a string: a printable ASCII character is itself, and so    *)
(* are "\t", "\n", "\f" and "\r"; a TLA+ string literal cannot hold the     *)
(* backtick, which is written BT; every other code unit is "U+" and its    *)
(* four upper-case hexadecimal digits ("U+00A0" is the no-break space).    *)
(***************************************************************************)
EXTENDS Integers, Sequences, FiniteSets, Bags

BT == "BACKTICK"

Null == [t |-> "null"]
Undefined == [t |-> "undefined"]
SyntaxError == [t |-> "SyntaxError"]
TypeError == [t |-> "TypeError"]

Min(S) == CHOOSE x \in S : \A y \in S : x <= y
Max(S) == CHOOSE x \in S : \A y \in S : y <= x

(***************************************************************************)
(* Text primitives.                                                        *)
(***************************************************************************)

\* pat occurs in s at index i (1-based).
MatchAt(s, pat, i) ==
    /\ i >= 1
    /\ i + Len(pat) - 1 <= Len(s)
    /\ \A k \in 1..Len(pat) : s[i + k - 1] = pat[k]

\* String.prototype.includes
Includes(s, pat) == \E i \in 1..(Len(s) + 1) : MatchAt(s, pat, i)

\* Mutant: the excerpt is not cut.
Substring0_Whole(s, n) == s

\* String.prototype.substring(0, n)
Substring0(s, n) == SubSeq(s, 1, IF Len(s) < n THEN Len(s) ELSE n)

\* The characters of s at the indices not in removed, in order.
Without(s, removed) ==
    LET idx == [i \in 1..Len(s) |-> <<i, s[i]>>]
        Keep(p) == p[1] \notin removed
        kept == SelectSeq(idx, Keep)
    IN  [k \in 1..Len(kept) |-> kept[k][2]]

FenceJson == <<BT, BT, BT, "j", "s", "o", "n">>
Fence == <<BT, BT, BT>>

\* .replace(/```json\n?/g, ''): every occurrence of the seven characters is a
\* match (two occurrences cannot overlap: the first three characters are
\* backticks, the last four are letters), and a match takes the line feed
\* that follows it, if any.
ReplaceFenceJson(s) ==
    LET starts == {i \in 1..Len(s) : MatchAt(s, FenceJson, i)}
        removed == UNION {
            (i..(i + 6)) \cup
              (IF i + 7 <= Len(s) /\ s[i + 7] = "\n" THEN {i + 7} ELSE {})
            : i \in starts}
    IN  Without(s, removed)

\* The number of consecutive characters c immediately before index i.
RunOf(s, c, i) ==
    IF i <= 1 \/ s[i - 1] # c THEN 0
    ELSE LET stops == {j \in 1..(i - 1) : s[j] # c /\ \A k \in (j + 1)..(i - 1) : s[k] = c}
         IN  IF stops = {} THEN i - 1 ELSE i - 1 - Min(stops)

\* Mutant: the g flag is missing, only the first fence is removed.
ReplaceFence_FirstOnly(s) ==
    LET starts == {i \in 1..Len(s) : MatchAt(s, Fence, i)}
    IN  IF starts = {} THEN s
        ELSE LET i == Min(starts)
             IN  Without(s, (i..(i + 2)) \cup
                   (IF i + 3 <= Len(s) /\ s[i + 3] = "\n" THEN {i + 3} ELSE {}))

\* .replace(/```\n?/g, ''): the search runs left to right and resumes after
\* each match, so inside a run of backticks the matches start at the run's
\* 1st, 4th, 7th, ... character (the backticks before it are a multiple of
\* three); a match takes the line feed that follows it.
ReplaceFence(s) ==
    LET starts == {i \in 1..Len(s) :
                     MatchAt(s, Fence, i) /\ RunOf(s, BT, i) % 3 = 0}
        removed == UNION {
            (i..(i + 2)) \cup
              (IF i + 3 <= Len(s) /\ s[i + 3] = "\n" THEN {i + 3} ELSE {})
            : i \in starts}
    IN  Without(s, removed)

\* The characters String.prototype.trim removes: WhiteSpace (TAB, VT, FF, the
\* byte order mark and the space separators of Unicode) and LineTerminator
\* (LF, CR, LS, PS).
WhiteSpace ==
    {"\t", "U+000B", "\f", " ", "U+00A0", "U+FEFF",
     "U+1680", "U+2000", "U+2001", "U+2002", "U+2003", "U+2004", "U+2005",
     "U+2006", "U+2007", "U+2008", "U+2009", "U+200A", "U+202F", "U+205F",
     "U+3000",
     "\n", "\r", "U+2028", "U+2029"}

\* String.prototype.trim
Trim(s) ==
    LET ink == {i \in 1..Len(s) : s[i] \notin WhiteSpace}
    IN  IF ink = {} THEN <<>>
        ELSE SubSeq(s, Min(ink), CHOOSE x \in ink : \A y \in ink : y <= x)

\* text.replace(/```json\n?/g, '').replace(/```\n?/g, '').trim()
CleanText(text) == Trim(ReplaceFence(ReplaceFenceJson(text)))

(***************************************************************************)
(* JSON.parse.  A value is a record tagged by t.  A number is held as its  *)
(* decimal expansion: neg its sign, digits its significant digits (none    *)
(* for zero, no zero first or last) and point the power of ten, the value  *)
(* being 0.digits * 10^point; inf marks an overflow to Infinity.  The      *)
(* digits are those Number::toString prints: the shortest decimal that     *)
(* names the double nearest to the literal.                                *)
(***************************************************************************)

Digit == {"0", "1", "2", "3", "4", "5", "6", "7", "8", "9"}
DigitSeq == <<"0", "1", "2", "3", "4", "5", "6", "7", "8", "9">>
DigitVal(c) == (CHOOSE k \in 1..10 : DigitSeq[k] = c) - 1

HexUpper == DigitSeq \o <<"A", "B", "C", "D", "E", "F">>
HexLower == DigitSeq \o <<"a", "b", "c", "d", "e", "f">>
HexVal(c) == (CHOOSE k \in 1..16 : HexUpper[k] = c \/ HexLower[k] = c) - 1

\* The printable ASCII characters, U+0020 to U+007E.
Ascii ==
    <<
      " ", "!", "\"", "#", "$", "%", "&", "'", "(", ")", "*", "+",
      ",", "-", ".", "/", "0", "1", "2", "3", "4", "5", "6", "7",
      "8", "9", ":", ";", "<", "=", ">", "?", "@", "A", "B", "C",
      "D", "E", "F", "G", "H", "I", "J", "K", "L", "M", "N", "O",
      "P", "Q", "R", "S", "T", "U", "V", "W", "X", "Y", "Z", "[",
      "\\", "]", "^", "_", BT, "a", "b", "c", "d", "e", "f", "g",
      "h", "i", "j", "k", "l", "m", "n", "o", "p", "q", "r", "s",
      "t", "u", "v", "w", "x", "y", "z", "{", "|", "}", "~" >>

\* The character of a code unit.
CharOf(code) ==
    IF code >= 32 /\ code <= 126 THEN Ascii[code - 31]
    ELSE IF code = 9 THEN "\t"
    ELSE IF code = 10 THEN "\n"
    ELSE IF code = 12 THEN "\f"
    ELSE IF code = 13 THEN "\r"
    ELSE "U+" \o HexUpper[(code \div 4096) + 1] \o HexUpper[((code \div 256) % 16) + 1]
              \o HexUpper[((code \div 16) % 16) + 1] \o HexUpper[(code % 16) + 1]

Fail == [ok |-> FALSE]
Ok(v, next) == [ok |-> TRUE, val |-> v, next |-> next]

\* The first index >= i that holds no JSON white space (Len(s) + 1 if none).
SkipWs(s, i) ==
    LET ink == {j \in i..Len(s) : s[j] \notin {" ", "\n", "\t", "\r"}}
    IN  IF ink = {} THEN Len(s) + 1 ELSE Min(ink)

\* The character an escape sequence starting at index k (the backslash) names.
Unescape(s, k) ==
    LET c == s[k + 1]
    IN  CASE c = "b" -> CharOf(8)
          [] c = "f" -> "\f"
          [] c = "n" -> "\n"
          [] c = "r" -> "\r"
          [] c = "t" -> "\t"
          [] c = "u" -> CharOf(4096 * HexVal(s[k + 2]) + 256 * HexVal(s[k + 3])
                                 + 16 * HexVal(s[k + 4]) + HexVal(s[k + 5]))
          [] OTHER -> c

\* The escape sequences of a string token's body start at the backslashes
\* before which the backslashes pair up.
EscapeStarts(body) ==
    {k \in 1..Len(body) : body[k] = "\\" /\ RunOf(body, "\\", k) % 2 = 0}

\* The backslash at index k opens \" \\ \/ \b \f \n \r \t or \uXXXX.
ValidEscape(body, k) ==
    \/ body[k + 1] \in {"\"", "\\", "/", "b", "f", "n", "r", "t"}
    \/ /\ body[k + 1] = "u"
       /\ k + 5 <= Len(body)
       /\ \A h \in 2..5 : \E d \in 1..16 : body[k + h] \in {HexUpper[d], HexLower[d]}

\* The string the body of a token names, starts being its escape sequences:
\* an escape that is not valid and a character below U+0020 are syntax
\* errors; each escape sequence gives its character in the place of the
\* backslash, and the characters after the backslash go.
DecodeString(body, starts, next) ==
    IF \/ \E k \in 1..Len(body), code \in 0..31 : body[k] = CharOf(code)
       \/ \E k \in starts : ~ValidEscape(body, k)
    THEN Fail
    ELSE Ok([t |-> "str",
             s |-> Without([k \in 1..Len(body) |->
                              IF k \in starts THEN Unescape(body, k) ELSE body[k]],
                           UNION {IF body[k + 1] = "u" THEN (k + 1)..(k + 5) ELSE {k + 1}
                                  : k \in starts})],
            next)

\* The index of the quote that closes the string token opening at index i: the
\* first quote that no backslash escapes (0 if there is none).
StringEnd(s, i) ==
    LET closes == {j \in (i + 1)..Len(s) : s[j] = "\"" /\ RunOf(s, "\\", j) % 2 = 0}
    IN  IF closes = {} THEN 0 ELSE Min(closes)

StringToken(s, i, j) ==
    IF j = 0 THEN Fail
    ELSE DecodeString(SubSeq(s, i + 1, j - 1), EscapeStarts(SubSeq(s, i + 1, j - 1)), j + 1)

\* A string token opening at index i (s[i] is the quote).
ParseString(s, i) == StringToken(s, i, StringEnd(s, i))

RECURSIVE DigitsValue(_)
DigitsValue(ds) ==
    IF ds = <<>> THEN 0
    ELSE 10 * DigitsValue(SubSeq(ds, 1, Len(ds) - 1)) + DigitVal(ds[Len(ds)])

\* The first index >= d that holds no digit (Len(s) + 1 if none).
DigitsEnd(s, d) ==
    LET stops == {j \in d..Len(s) : s[j] \notin Digit}
    IN  IF stops = {} THEN Len(s) + 1 ELSE Min(stops)

\* 0.a >= 0.b, for digit sequences a and b.
FractionAtLeast(a, b) ==
    LET n == IF Len(a) > Len(b) THEN Len(a) ELSE Len(b)
        A(k) == IF k <= Len(a) THEN DigitVal(a[k]) ELSE 0
        B(k) == IF k <= Len(b) THEN DigitVal(b[k]) ELSE 0
        differ == {k \in 1..n : A(k) # B(k)}
    IN  differ = {} \/ A(Min(differ)) > B(Min(differ))

\* The digits of 2^1024 - 2^970, half way between the largest double and
\* 2^1024: a literal at or above it gives Infinity.
OverflowDigits ==
    <<
      "1", "7", "9", "7", "6", "9", "3", "1", "3", "4", "8", "6", "2", "3",
      "1", "5", "8", "0", "7", "9", "3", "7", "2", "8", "9", "7", "1", "4",
      "0", "5", "3", "0", "3", "4", "1", "5", "0", "7", "9", "9", "3", "4",
      "1", "3", "2", "7", "1", "0", "0", "3", "7", "8", "2", "6", "9", "3",
      "6", "1", "7", "3", "7", "7", "8", "9", "8", "0", "4", "4", "4", "9",
      "6", "8", "2", "9", "2", "7", "6", "4", "7", "5", "0", "9", "4", "6",
      "6", "4", "9", "0", "1", "7", "9", "7", "7", "5", "8", "7", "2", "0",
      "7", "0", "9", "6", "3", "3", "0", "2", "8", "6", "4", "1", "6", "6",
      "9", "2", "8", "8", "7", "9", "1", "0", "9", "4", "6", "5", "5", "5",
      "5", "4", "7", "8", "5", "1", "9", "4", "0", "4", "0", "2", "6", "3",
      "0", "6", "5", "7", "4", "8", "8", "6", "7", "1", "5", "0", "5", "8",
      "2", "0", "6", "8", "1", "9", "0", "8", "9", "0", "2", "0", "0", "0",
      "7", "0", "8", "3", "8", "3", "6", "7", "6", "2", "7", "3", "8", "5",
      "4", "8", "4", "5", "8", "1", "7", "7", "1", "1", "5", "3", "1", "7",
      "6", "4", "4", "7", "5", "7", "3", "0", "2", "7", "0", "0", "6", "9",
      "8", "5", "5", "5", "7", "1", "3", "6", "6", "9", "5", "9", "6", "2",
      "2", "8", "4", "2", "9", "1", "4", "8", "1", "9", "8", "6", "0", "8",
      "3", "4", "9", "3", "6", "4", "7", "5", "2", "9", "2", "7", "1", "9",
      "0", "7", "4", "1", "6", "8", "4", "4", "4", "3", "6", "5", "5", "1",
      "0", "7", "0", "4", "3", "4", "2", "7", "1", "1", "5", "5", "9", "6",
      "9", "9", "5", "0", "8", "0", "9", "3", "0", "4", "2", "8", "8", "0",
      "1", "7", "7", "9", "0", "4", "1", "7", "4", "4", "9", "7", "7", "9",
      "2" >>

Zero(neg) == [t |-> "num", neg |-> neg, digits |-> <<>>, point |-> 0, inf |-> FALSE]
Infinity(neg) == [t |-> "num", neg |-> neg, digits |-> <<>>, point |-> 0, inf |-> TRUE]

\* The digits from the first that is not zero to the last that is not zero.
Significant(ds) ==
    LET ink == {k \in 1..Len(ds) : ds[k] # "0"}
    IN  IF ink = {} THEN <<>> ELSE SubSeq(ds, Min(ink), Max(ink))

\* The number of zeros before the first digit that is not zero.
LeadingZeros(ds) ==
    LET ink == {k \in 1..Len(ds) : ds[k] # "0"}
    IN  IF ink = {} THEN Len(ds) ELSE Min(ink) - 1

(***************************************************************************)
(* Natural numbers of any size, for the rounding of a literal to the       *)
(* nearest double.  A numeral is the sequence of the decimal digits of a   *)
(* number (integers from 0 to 9), the most significant first and not zero; *)
(* <<>> is zero.  Sums and products are computed on limbs: the digits of   *)
(* the number in base 1000, the least significant first.                   *)
(***************************************************************************)

\* n digits zero
ZeroDigits(n) == [k \in 1..n |-> 0]

\* The digits without the leading zeros.
Stripped(ds) ==
    LET ink == {k \in 1..Len(ds) : ds[k] # 0}
    IN  IF ink = {} THEN <<>> ELSE SubSeq(ds, Min(ink), Len(ds))

\* The numeral of a sequence of digit characters.
NumeralOf(chars) == Stripped([k \in 1..Len(chars) |-> DigitVal(chars[k])] \o <<>>)

\* The limbs of a numeral: three digits each, from the right.
LimbsOf(n) ==
    [j \in 1..((Len(n) + 2) \div 3) |->
       (n[Len(n) - 3 * j + 3])
         + (IF Len(n) - 3 * j + 2 >= 1 THEN 10 * n[Len(n) - 3 * j + 2] ELSE 0)
         + (IF Len(n) - 3 * j + 1 >= 1 THEN 100 * n[Len(n) - 3 * j + 1] ELSE 0)] \o <<>>

\* The numeral of a sequence of limbs.
NumeralOfLimbs(a) ==
    Stripped([p \in 1..(3 * Len(a)) |->
                CASE (p - 1) % 3 = 0 -> a[Len(a) - ((p - 1) \div 3)] \div 100
                  [] (p - 1) % 3 = 1 -> (a[Len(a) - ((p - 1) \div 3)] \div 10) % 10
                  [] OTHER -> a[Len(a) - ((p - 1) \div 3)] % 10] \o <<>>)

\* a + b modulo 1000^Len(a), for a and b of the same number of limbs: a
\* limb takes a carry when the limbs of the place below add up to 1000 or
\* more, or to 999 while those of a lower place add up to 1000 or more and
\* those of every place between to 999.
AddLimbs(a, b) ==
    [k \in 1..Len(a) |->
       (a[k] + b[k]
          + (IF /\ k > 1
                /\ \/ a[k - 1] + b[k - 1] >= 1000
                   \/ /\ a[k - 1] + b[k - 1] = 999
                      /\ \E j \in 1..(k - 2) :
                           /\ a[j] + b[j] >= 1000
                           /\ \A l \in (j + 1)..(k - 2) : a[l] + b[l] = 999
             THEN 1 ELSE 0)) % 1000] \o <<>>

\* The limbs of the number whose k-th limb is written raw[k], any natural
\* number below 2^31: each raw[k] is cut in four limbs, which are added in
\* their places.
Carried(raw) ==
    LET Piece(d, unit) ==
            [k \in 1..Len(raw) |-> IF k > d THEN (raw[k - d] \div unit) % 1000 ELSE 0] \o <<>>
    IN  AddLimbs(AddLimbs(Piece(0, 1), Piece(1, 1000)),
                 AddLimbs(Piece(2, 1000000), Piece(3, 1000000000)))

\* The limbs without a zero limb at the top.
DropTop(a) == IF a # <<>> /\ a[Len(a)] = 0 THEN SubSeq(a, 1, Len(a) - 1) ELSE a

\* a * b: the k-th limb before the carries is the sum of a[i] * b[k + 1 - i]
\* over i (the number of elements of the bag that holds each product that
\* many times).
MulLimbs(a, b) ==
    IF a = <<>> \/ b = <<>> THEN <<>>
    ELSE DropTop(Carried(
           [k \in 1..(Len(a) + Len(b)) |->
              BagCardinality([i \in {i \in 1..Len(a) : /\ k + 1 - i >= 1
                                                       /\ k + 1 - i <= Len(b)
                                                       /\ a[i] * b[k + 1 - i] > 0}
                                |-> a[i] * b[k + 1 - i]])] \o <<>>))

Squared(a) == MulLimbs(a, a)

RECURSIVE PowLimbs(_, _)
\* b^n, for a limb b
PowLimbs(b, n) ==
    IF n = 0 THEN <<1>>
    ELSE IF n % 2 = 0 THEN Squared(PowLimbs(b, n \div 2))
    ELSE MulLimbs(<<b>>, Squared(PowLimbs(b, n \div 2)))

\* x * y and x + y, for numerals
Product(x, y) == NumeralOfLimbs(MulLimbs(LimbsOf(x), LimbsOf(y)))
AddNumerals(x, y) ==
    LET n == (Max({Len(x), Len(y)}) \div 3) + 2
        Padded(a) == a \o [k \in 1..(n - Len(a)) |-> 0]
    IN  NumeralOfLimbs(AddLimbs(Padded(LimbsOf(x)), Padded(LimbsOf(y))))

\* x < y, for numerals
LessNumeral(x, y) ==
    IF Len(x) # Len(y) THEN Len(x) < Len(y)
    ELSE LET differ == {k \in 1..Len(x) : x[k] # y[k]}
         IN  differ # {} /\ x[Min(differ)] < y[Min(differ)]

\* x + 1
Inc(x) ==
    LET nines == RunOf(x, 9, Len(x) + 1)
    IN  IF nines = Len(x) THEN <<1>> \o ZeroDigits(Len(x))
        ELSE SubSeq(x, 1, Len(x) - nines - 1) \o <<x[Len(x) - nines] + 1>>
               \o ZeroDigits(nines)

\* The whole part of x * 10^s.
Whole(x, s) ==
    IF s >= 0 THEN (IF x = <<>> THEN <<>> ELSE x \o ZeroDigits(s))
    ELSE IF Len(x) + s <= 0 THEN <<>>
    ELSE SubSeq(x, 1, Len(x) + s)

\* x * 10^s to the nearest whole number: up from its whole part t when the
\* part after the point is more than a half, or is a half and t is odd.
Rounded(x, s) ==
    LET t == Whole(x, s)
        h == Len(x) + s + 1
        up == /\ s < 0
              /\ h >= 1
              /\ \/ x[h] > 5
                 \/ /\ x[h] = 5
                    /\ \/ \E k \in (h + 1)..Len(x) : x[k] # 0
                       \/ t # <<>> /\ t[Len(t)] % 2 = 1
    IN  IF up THEN Inc(t) ELSE t

(***************************************************************************)
(* The double nearest to a decimal.  A double is m * 2^g, g its quantum:   *)
(* 2^52 <= m < 2^53 and g >= -1074 for a normal double, g = -1074 and      *)
(* m < 2^52 for a subnormal one.  Dividing by 2^g is multiplying by 5^g    *)
(* and moving the decimal point g places.                                  *)
(***************************************************************************)

TwoTo52 == <<4, 5, 0, 3, 5, 9, 9, 6, 2, 7, 3, 7, 0, 4, 9, 6>>
TwoTo53 == <<9, 0, 0, 7, 1, 9, 9, 2, 5, 4, 7, 4, 0, 9, 9, 2>>

\* x / 2^g is OverQuantum(x, g) / 10^g when g >= 0, OverQuantum(x, g) if not.
OverQuantum(x, g) ==
    IF g >= 0 THEN NumeralOfLimbs(MulLimbs(LimbsOf(x), PowLimbs(5, g)))
    ELSE NumeralOfLimbs(MulLimbs(LimbsOf(x), PowLimbs(2, 0 - g)))

\* The quantum of the double below x * 10^q, a number from 10^(point - 1) to
\* 10^point: its binary exponent e lies between the products of point - 1
\* and point by log2(10) = 3.3219280..., its quantum is e - 52, or -1074 when
\* e < -1022, and the whole part of the number over 2^g is then below 2^53
\* and, but for a subnormal, not below 2^52.
Quantum(x, q, point) ==
    CHOOSE g \in {(IF e < -1022 THEN -1022 ELSE e) - 52 :
                    e \in ((((point - 1) * 3321928) \div 1000000) - 1)
                            ..(((point * 3321929) \div 1000000) + 1)} :
      \E t \in {Whole(OverQuantum(x, g), q - Max({g, 0}))} :
        LessNumeral(t, TwoTo53) /\ (g = -1074 \/ ~LessNumeral(t, TwoTo52))

\* The shortest decimal that names the double m * 2^g, as Number::toString
\* finds it.  z is the double, low and top - z the distances to the halfway
\* points below and above, all in units of 10^w; a decimal names the double
\* when it lies between the halfway points, which count when m is even.
\* j is the number of digits of z left out: z cut there names the double,
DownFits(even, z, low, j) ==
    /\ j < Len(z)
    /\ IF even
       THEN ~LessNumeral(AddNumerals(Whole(z, 0 - j) \o ZeroDigits(j), low), z)
       ELSE LessNumeral(z, AddNumerals(Whole(z, 0 - j) \o ZeroDigits(j), low))

\* or z cut there plus one does.
UpFits(even, z, top, j) ==
    IF even
    THEN ~LessNumeral(top, Inc(Whole(z, 0 - j)) \o ZeroDigits(j))
    ELSE LessNumeral(Inc(Whole(z, 0 - j)) \o ZeroDigits(j), top)

\* The most digits of z that can be left out; 17 digits always name a double.
MostLeftOut(even, z, low, top) ==
    Max({j \in (IF Len(z) > 17 THEN Len(z) - 17 ELSE 0)..Len(z) :
           DownFits(even, z, low, j) \/ UpFits(even, z, top, j)})

\* The digits kept: z cut after them, or that plus one, whichever names the
\* double and is the nearer to it (the even one of two as near).
Kept(even, z, low, top, j) ==
    IF ~DownFits(even, z, low, j) THEN Inc(Whole(z, 0 - j))
    ELSE IF ~UpFits(even, z, top, j) THEN Whole(z, 0 - j)
    ELSE Rounded(z, 0 - j)

\* The number 0.kept * 10^(Len(kept) + shift), without the zeros at the end.
ShortestKept(neg, kept, shift) ==
    [t |-> "num", neg |-> neg,
     digits |-> Significant([k \in 1..Len(kept) |-> DigitSeq[kept[k] + 1]]),
     point |-> Len(kept) + shift, inf |-> FALSE]

ShortestIn(neg, even, z, low, top, w) ==
    ShortestKept(neg, Kept(even, z, low, top, MostLeftOut(even, z, low, top)),
                 MostLeftOut(even, z, low, top) + w)

\* p is 2^(g - 2) in units of 10^w: the double is 4 * m * p, the halfway
\* point above is 2 * p away, the one below 2 * p too, or p when the double
\* below is in the binade under this one.
ShortestWith(neg, m, g, p, w) ==
    ShortestIn(neg, m[Len(m)] % 2 = 0,
               Product(Product(m, <<4>>), p),
               IF m = TwoTo52 /\ g > -1074 THEN p ELSE Product(p, <<2>>),
               AddNumerals(Product(Product(m, <<4>>), p), Product(p, <<2>>)),
               w)

RECURSIVE Shortest(_, _, _)
\* The double m * 2^g in its shortest digits: zero when the mantissa is,
\* and a mantissa of 2^53 is 2^52 with the next quantum.
Shortest(neg, m, g) ==
    IF m = <<>> THEN Zero(neg)
    ELSE IF m = TwoTo53 THEN Shortest(neg, TwoTo52, g + 1)
    ELSE IF g - 2 >= 0
         THEN ShortestWith(neg, m, g, NumeralOfLimbs(PowLimbs(2, g - 2)), 0)
    ELSE ShortestWith(neg, m, g, NumeralOfLimbs(PowLimbs(5, 2 - g)), g - 2)

\* The double nearest to x * 10^q, whose quantum is g.
Nearest(neg, x, q, g) ==
    Shortest(neg, Rounded(OverQuantum(x, g), q - Max({g, 0})), g)

\* The double of 0.sig * 10^point, sig without zeros at its ends: Infinity
\* from 2^1024 - 2^970 up, zero below 10^-324; a decimal of at most 15
\* digits in the range of the normal doubles is the shortest that names its
\* double; any other is rounded to the nearest double.
Double(neg, sig, point) ==
    IF point > Len(OverflowDigits) THEN Infinity(neg)
    ELSE IF point = Len(OverflowDigits) /\ FractionAtLeast(sig, OverflowDigits)
         THEN Infinity(neg)
    ELSE IF point <= -324 THEN Zero(neg)
    ELSE IF Len(sig) <= 15 /\ point >= -306
         THEN [t |-> "num", neg |-> neg, digits |-> sig, point |-> point, inf |-> FALSE]
    ELSE Nearest(neg, NumeralOf(sig), point - Len(sig),
                 Quantum(NumeralOf(sig), point - Len(sig), point))

\* 0.sig * 10^point times ten to the exponent of digits exp (no zero first),
\* negative if expNeg: the double of 0.sig * 10^(point + exponent).  A string
\* has fewer than 2^30 characters, and point is within the length of the
\* literal: an exponent of 2^31 or more takes the number beyond every double
\* wherever the decimal point is, and so does one over 1000 that moves the
\* point farther the way it already lies; the sum is within 32 bits otherwise.
Scaled(neg, sig, point, expNeg, exp) ==
    IF sig = <<>> THEN Zero(neg)
    ELSE IF \/ LessNumeral(<<2, 1, 4, 7, 4, 8, 3, 6, 4, 7>>, NumeralOf(exp))
            \/ /\ DigitsValue(exp) > 1000
               /\ IF expNeg THEN point <= 0 ELSE point >= 0
         THEN (IF expNeg THEN Zero(neg) ELSE Infinity(neg))
    ELSE Double(neg, sig,
                IF expNeg THEN point - DigitsValue(exp) ELSE point + DigitsValue(exp))

\* The number a literal names: int and frac the digits before and after the
\* decimal point, exp the digits of the exponent and expNeg its sign.
NumberValue(neg, int, frac, expNeg, exp) ==
    Scaled(neg, Significant(int \o frac), Len(int) - LeadingZeros(int \o frac),
           expNeg, SubSeq(exp, LeadingZeros(exp) + 1, Len(exp)))

\* The end of the integer part that starts at index d: 0 alone, or digits.
IntEnd(s, d) ==
    IF d <= Len(s) /\ s[d] = "0" THEN d + 1 ELSE DigitsEnd(s, d)

\* The end of the fraction, if one opens at index intEnd.
FracEnd(s, intEnd) ==
    IF intEnd <= Len(s) /\ s[intEnd] = "." THEN DigitsEnd(s, intEnd + 1) ELSE intEnd

\* The first digit of the exponent, if one opens at index fracEnd.
ExpStart(s, fracEnd) ==
    IF fracEnd <= Len(s) /\ s[fracEnd] \in {"e", "E"}
    THEN (IF fracEnd + 1 <= Len(s) /\ s[fracEnd + 1] \in {"+", "-"}
          THEN fracEnd + 2 ELSE fracEnd + 1)
    ELSE fracEnd

\* The token whose integer part is s[d..intEnd - 1], whose fraction ends before
\* fracEnd and whose exponent has its digits in s[expStart..expEnd - 1].
NumberToken(s, neg, d, intEnd, fracEnd, expStart, expEnd) ==
    IF intEnd = d THEN Fail
    ELSE IF fracEnd = intEnd + 1 THEN Fail
    ELSE IF expStart > fracEnd /\ expEnd = expStart THEN Fail
    ELSE Ok(NumberValue(neg,
                        SubSeq(s, d, intEnd - 1),
                        SubSeq(s, intEnd + 1, fracEnd - 1),
                        expStart > fracEnd /\ s[expStart - 1] = "-",
                        SubSeq(s, expStart, expEnd - 1)),
            expEnd)

NumberFrom(s, neg, d, intEnd, fracEnd, expStart) ==
    NumberToken(s, neg, d, intEnd, fracEnd, expStart,
                IF expStart > fracEnd THEN DigitsEnd(s, expStart) ELSE fracEnd)

NumberAfterInt(s, neg, d, intEnd, fracEnd) ==
    NumberFrom(s, neg, d, intEnd, fracEnd, ExpStart(s, fracEnd))

NumberAt(s, neg, d, intEnd) == NumberAfterInt(s, neg, d, intEnd, FracEnd(s, intEnd))

\* A number token at index i: -?(0|[1-9][0-9]*)(\.[0-9]+)?([eE][+-]?[0-9]+)?
ParseNumber(s, i) ==
    NumberAt(s, s[i] = "-", IF s[i] = "-" THEN i + 1 ELSE i,
             IntEnd(s, IF s[i] = "-" THEN i + 1 ELSE i))

LitTrue == <<"t", "r", "u", "e">>
LitFalse == <<"f", "a", "l", "s", "e">>
LitNull == <<"n", "u", "l", "l">>

\* The key is an array index: the canonical numeral of an integer from 0 to
\* 2^32 - 2.
IsArrayIndex(key) ==
    /\ key # <<>>
    /\ \A k \in 1..Len(key) : key[k] \in Digit
    /\ Len(key) = 1 \/ key[1] # "0"
    /\ ~LessNumeral(<<4, 2, 9, 4, 9, 6, 7, 2, 9, 4>>, NumeralOf(key))

\* The object the members read, in source order, build: a later member of
\* the same name replaces the value and keeps the place of the first; the
\* keys that are array indices come first, in ascending order, the other
\* keys after them in the order of their first appearance.
ObjectOf(members) ==
    LET n == Len(members)
        firsts == {i \in 1..n : \A j \in 1..(i - 1) : members[j].k # members[i].k}
        Last(i) == CHOOSE j \in i..n :
                     /\ members[j].k = members[i].k
                     /\ \A l \in (j + 1)..n : members[l].k # members[i].k
        indexed == {i \in firsts : IsArrayIndex(members[i].k)}
        Rank(i) == 1 + Cardinality({j \in indexed : LessNumeral(NumeralOf(members[j].k), NumeralOf(members[i].k))})
        Named(i) == i \in firsts /\ i \notin indexed
        order == [r \in 1..Cardinality(indexed) |-> CHOOSE i \in indexed : Rank(i) = r]
                   \o SelectSeq([i \in 1..n |-> i], Named)
    IN  [t |-> "obj",
         m |-> [r \in 1..Len(order) |->
                  [k |-> members[order[r]].k, v |-> members[Last(order[r])].v]]]

RECURSIVE ParseValue(_, _)
RECURSIVE ParseMembers(_, _, _)
RECURSIVE ParseElements(_, _, _)

\* The members of an object from index i (after "{" or ","), acc those read.
ParseMembers(s, i, acc) ==
    LET k == SkipWs(s, i)
    IN  IF k > Len(s) \/ s[k] # "\"" THEN Fail
        ELSE LET key == ParseString(s, k)
             IN  IF ~key.ok THEN Fail
                 ELSE LET c == SkipWs(s, key.next)
                      IN  IF c > Len(s) \/ s[c] # ":" THEN Fail
                          ELSE LET v == ParseValue(s, c + 1)
                               IN  IF ~v.ok THEN Fail
                                   ELSE LET e == SkipWs(s, v.next)
                                            all == Append(acc, [k |-> key.val.s, v |-> v.val])
                                        IN  IF e > Len(s) THEN Fail
                                            ELSE IF s[e] = "}" THEN Ok(ObjectOf(all), e + 1)
                                            ELSE IF s[e] = "," THEN ParseMembers(s, e + 1, all)
                                            ELSE Fail

\* The elements of an array from index i (after "[" or ","), acc those read.
ParseElements(s, i, acc) ==
    LET v == ParseValue(s, i)
    IN  IF ~v.ok THEN Fail
        ELSE LET e == SkipWs(s, v.next)
                 all == Append(acc, v.val)
             IN  IF e > Len(s) THEN Fail
                 ELSE IF s[e] = "]" THEN Ok([t |-> "arr", e |-> all], e + 1)
                 ELSE IF s[e] = "," THEN ParseElements(s, e + 1, all)
                 ELSE Fail

ParseValue(s, i) ==
    LET j == SkipWs(s, i)
    IN  IF j > Len(s) THEN Fail
        ELSE IF s[j] = "{"
             THEN LET k == SkipWs(s, j + 1)
                  IN  IF k <= Len(s) /\ s[k] = "}"
                      THEN Ok([t |-> "obj", m |-> <<>>], k + 1)
                      ELSE ParseMembers(s, j + 1, <<>>)
        ELSE IF s[j] = "["
             THEN LET k == SkipWs(s, j + 1)
                  IN  IF k <= Len(s) /\ s[k] = "]"
                      THEN Ok([t |-> "arr", e |-> <<>>], k + 1)
                      ELSE ParseElements(s, j + 1, <<>>)
        ELSE IF s[j] = "\"" THEN ParseString(s, j)
        ELSE IF s[j] = "-" \/ s[j] \in Digit THEN ParseNumber(s, j)
        ELSE IF MatchAt(s, LitTrue, j) THEN Ok([t |-> "bool", b |-> TRUE], j + 4)
        ELSE IF MatchAt(s, LitFalse, j) THEN Ok([t |-> "bool", b |-> FALSE], j + 5)
        ELSE IF MatchAt(s, LitNull, j) THEN Ok(Null, j + 4)
        ELSE Fail

\* JSON.parse(s): the value, or SyntaxError where JSON.parse throws.
JSONParse(s) ==
    LET r == ParseValue(s, 1)
    IN  IF r.ok /\ SkipWs(s, r.next) > Len(s) THEN r.val ELSE SyntaxError

(***************************************************************************)
(* The JavaScript operations the handler applies to a parsed value.        *)
(***************************************************************************)

\* value[key] for the keys the handler reads (none is a built-in property):
\* TypeError on null and undefined, the last member of that name on an
\* object, undefined on anything else.
GetProp(value, key) ==
    IF value.t \in {"null", "undefined"} THEN TypeError
    ELSE IF value.t # "obj" THEN Undefined
    ELSE LET hits == {i \in 1..Len(value.m) : value.m[i].k = key}
         IN  IF hits = {} THEN Undefined
             ELSE value.m[CHOOSE i \in hits : \A j \in hits : j <= i].v

\* !value
Falsy(value) ==
    \/ value.t \in {"null", "undefined"}
    \/ value.t = "bool" /\ ~value.b
    \/ value.t = "num" /\ value.digits = <<>> /\ ~value.inf
    \/ value.t = "str" /\ value.s = <<>>

RECURSIVE NatToString(_)
NatToString(n) ==
    IF n < 10 THEN <<DigitSeq[n + 1]>>
    ELSE NatToString(n \div 10) \o <<DigitSeq[(n % 10) + 1]>>

\* n zeros
Zeros(n) == [k \in 1..n |-> "0"]

\* Number::toString: the digits with the decimal point placed for a point
\* from -5 to 21, the exponent notation beyond.
NumberToString(value) ==
    LET ds == value.digits
        k == Len(ds)
        n == value.point
        e == n - 1
        abs == IF value.inf THEN <<"I", "n", "f", "i", "n", "i", "t", "y">>
               ELSE IF k = 0 THEN <<"0">>
               ELSE IF k <= n /\ n <= 21 THEN ds \o Zeros(n - k)
               ELSE IF 0 < n /\ n <= 21 THEN SubSeq(ds, 1, n) \o <<".">> \o SubSeq(ds, n + 1, k)
               ELSE IF -6 < n /\ n <= 0 THEN <<"0", ".">> \o Zeros(0 - n) \o ds
               ELSE (IF k = 1 THEN ds ELSE <<ds[1], ".">> \o SubSeq(ds, 2, k))
                      \o <<"e">> \o (IF e < 0 THEN <<"-">> \o NatToString(0 - e)
                                     ELSE <<"+">> \o NatToString(e))
    IN  IF value.neg /\ (k > 0 \/ value.inf) THEN <<"-">> \o abs ELSE abs

\* "toString"
KToString ==
    <<"t", "o", "S", "t", "r", "i", "n", "g">>

RECURSIVE Unprintable(_)
\* ToString(value) throws a TypeError: an object parsed from JSON that has a
\* member toString has no callable toString, and Object.prototype.valueOf
\* gives no primitive; an array is joined, so it throws when an element does.
Unprintable(value) ==
    \/ value.t = "obj" /\ \E i \in 1..Len(value.m) : value.m[i].k = KToString
    \/ value.t = "arr" /\ \E i \in 1..Len(value.e) : Unprintable(value.e[i])

RECURSIVE JsString(_)
RECURSIVE Join(_)
\* Array.prototype.join(","): null and undefined elements give the empty string.
Join(elems) ==
    IF elems = <<>> THEN <<>>
    ELSE LET one == IF elems[1].t \in {"null", "undefined"} THEN <<>> ELSE JsString(elems[1])
         IN  IF Len(elems) = 1 THEN one ELSE one \o <<",">> \o Join(Tail(elems))

\* `${value}` in a template literal, for a value that is not Unprintable.
JsString(value) ==
    CASE value.t = "str" -> value.s
      [] value.t = "num" -> NumberToString(value)
      [] value.t = "bool" -> IF value.b THEN LitTrue ELSE LitFalse
      [] value.t = "null" -> LitNull
      [] value.t = "undefined" -> <<"u", "n", "d", "e", "f", "i", "n", "e", "d">>
      [] value.t = "arr" -> Join(value.e)
      [] value.t = "obj" -> <<"[", "o", "b", "j", "e", "c", "t", " ", "O", "b", "j", "e", "c", "t", "]">>

(***************************************************************************)
(* Constants of '@/types/health' and of the handler.                       *)
(***************************************************************************)

ALLOWED_FILE_TYPES ==
    <<"application/pdf", "text/csv", "application/msword",
      "application/vnd.openxmlformats-officedocument.wordprocessingml.document",
      "image/png", "image/jpeg", "image/jpg">>

MAX_FILE_SIZE == 20 * 1024 * 1024

\* analysisText.substring(0, 500)
ExcerptLength == 500

\* "isHealthDocument"
KIsHealthDocument ==
    <<"i", "s", "H", "e", "a", "l", "t", "h", "D", "o", "c", "u", "m", "e",
      "n", "t">>

\* "confidence"
KConfidence ==
    <<"c", "o", "n", "f", "i", "d", "e", "n", "c", "e">>

\* "documentType"
KDocumentType ==
    <<"d", "o", "c", "u", "m", "e", "n", "t", "T", "y", "p", "e">>

\* "reason"
KReason ==
    <<"r", "e", "a", "s", "o", "n">>

\* "Unknown"
Unknown ==
    <<"U", "n", "k", "n", "o", "w", "n">>

\* "Could not verify document type"
CouldNotVerify ==
    <<"C", "o", "u", "l", "d", " ", "n", "o", "t", " ", "v", "e", "r", "i",
      "f", "y", " ", "d", "o", "c", "u", "m", "e", "n", "t", " ", "t", "y",
      "p", "e">>

\* "API key"
PatApiKey ==
    <<"A", "P", "I", " ", "k", "e", "y">>

\* "quota"
PatQuota ==
    <<"q", "u", "o", "t", "a">>

\* "invalid"
PatInvalid ==
    <<"i", "n", "v", "a", "l", "i", "d">>

\* "message"
KMessage ==
    <<"m", "e", "s", "s", "a", "g", "e">>

Str(chars) == [t |-> "str", s |-> chars]
\* The number an integer literal of the source names.
Num(n) == NumberValue(n < 0, NatToString(IF n < 0 THEN 0 - n ELSE n), <<>>, FALSE, <<>>)
Bool(b) == [t |-> "bool", b |-> b]

\* The verdict the handler substitutes when the classifier's reply does not parse.
DefaultHealthCheck ==
    [t |-> "obj",
     m |-> << [k |-> KIsHealthDocument, v |-> Bool(TRUE)],
              [k |-> KConfidence, v |-> Num(50)],
              [k |-> KDocumentType, v |-> Str(Unknown)],
              [k |-> KReason, v |-> Str(CouldNotVerify)] >>]

\* Array.prototype.includes
ArrayIncludes(arr, x) == \E i \in 1..Len(arr) : arr[i] = x

\* (size / 1024 / 1024).toFixed(2): the quotient is exact in a double, and
\* toFixed rounds it to the nearest hundredth, a tie going up.
ToFixed2(size) ==
    LET mib == 1024 * 1024
        h == 100 * (size \div mib) + ((200 * (size % mib) + mib) \div (2 * mib))
    IN  NatToString(h \div 100) \o <<".">>
          \o <<DigitSeq[((h % 100) \div 10) + 1], DigitSeq[(h % 10) + 1]>>

\* Mutant: the parse error is not caught.
ParseHealthCheck_Propagate(checkText) == JSONParse(CleanText(checkText))

\* try { JSON.parse(cleaned) } catch { default verdict }
ParseHealthCheck(checkText) ==
    LET parsed == JSONParse(CleanText(checkText))
    IN  IF parsed = SyntaxError THEN DefaultHealthCheck ELSE parsed

(***************************************************************************)
(* Response envelopes.  A label or a details string built by a template    *)
(* literal is a record: text names the template, args the interpolated     *)
(* texts in order; the details the catch block copies from error.message   *)
(* are that value.  The Turkish labels are written without diacritics, and *)
(* the long catalogue that ends the not-health details is elided.          *)
(***************************************************************************)

RECURSIVE Stringified(_)
\* The value a client reads back from what JSON.stringify writes for a
\* value: Infinity becomes null and -0 becomes 0, an element of an array
\* that is undefined becomes null, and a member of an object whose value is
\* undefined is left out.
Stringified(value) ==
    CASE value.t = "num" ->
           IF value.inf THEN Null
           ELSE IF value.digits = <<>> THEN Zero(FALSE)
           ELSE value
      [] value.t = "arr" ->
           [t |-> "arr",
            e |-> [i \in 1..Len(value.e) |->
                     IF value.e[i].t = "undefined" THEN Null
                     ELSE Stringified(value.e[i])]]
      [] value.t = "obj" ->
           LET Defined(member) == member.v.t # "undefined"
               written == SelectSeq(value.m, Defined)
           IN  [t |-> "obj",
                m |-> [i \in 1..Len(written) |->
                         [k |-> written[i].k, v |-> Stringified(written[i].v)]]]
      [] OTHER -> value

\* A failure envelope written without a details field.
FailureNoDetails(status, error) ==
    [status |-> status, body |-> [success |-> FALSE, error |-> error]]

\* NextResponse.json({success: false, error, details}, {status}): the body
\* as the client reads it.  A details built by a template literal is a text;
\* a details that is a value is written by JSON.stringify, which leaves the
\* field out when the value is undefined.
Failure(status, error, details) ==
    IF "t" \notin DOMAIN details
    THEN [status |-> status,
          body |-> [success |-> FALSE, error |-> error, details |-> details]]
    ELSE IF details.t = "undefined" THEN FailureNoDetails(status, error)
    ELSE [status |-> status,
          body |-> [success |-> FALSE, error |-> error,
                    details |-> Stringified(details)]]

Fixed(text) == [text |-> text, args |-> <<>>]

InvalidRequestFormat ==
    Failure(400, Fixed("Invalid request format"),
            Fixed("Request body must be sent as multipart/form-data. Please ensure you are sending the file using FormData with the correct Content-Type header."))

MissingFile ==
    FailureNoDetails(400, Fixed("Dosya bulunamadi. Lutfen bir dosya yukleyin."))

MissingWallet ==
    FailureNoDetails(400, Fixed("Wallet adresi gerekli. Lutfen wallet adresinizi gonderin."))

UnsupportedFileType(type) ==
    Failure(400, [text |-> "Desteklenmeyen dosya tipi: ${file.type}", args |-> << <<type>> >>],
            Fixed("Desteklenen formatlar: PDF, CSV, DOC, DOCX, PNG, JPEG"))

FileTooLarge(size) ==
    Failure(400, Fixed("Dosya boyutu cok buyuk"),
            [text |-> "Maksimum dosya boyutu: ${1}MB. Yuklenen dosya: ${2}MB",
             args |-> <<NatToString((MAX_FILE_SIZE \div 1024) \div 1024), ToFixed2(size)>>])

NotHealthDocument(healthCheck) ==
    Failure(400, Fixed("This document is not health-related"),
            [text |-> "Document Analysis: Type: ${1} Confidence: ${2}% Reason: ${3} ...",
             args |-> <<JsString(GetProp(healthCheck, KDocumentType)),
                        JsString(GetProp(healthCheck, KConfidence)),
                        JsString(GetProp(healthCheck, KReason))>>])

AnalysisParseError(analysisText) ==
    Failure(500, Fixed("Failed to parse AI analysis"),
            [text |-> "The AI returned an invalid response format. Raw response: ${1}...",
             args |-> <<Substring0(analysisText, ExcerptLength)>>])

\* error.message?.includes(pattern): undefined when there is no message, the
\* search in a string, the membership in an array; any other message has no
\* method includes and the call throws a TypeError.
MessageIncludes(message, pattern) ==
    CASE message.t \in {"null", "undefined"} -> FALSE
      [] message.t = "str" -> Includes(message.s, pattern)
      [] message.t = "arr" -> \E i \in 1..Len(message.e) : message.e[i] = Str(pattern)

\* The catch block, for the value caught: the first of 'API key', 'quota',
\* 'invalid' its message includes picks the label and replaces the details;
\* otherwise the details are the message itself.  The block itself throws a
\* TypeError when the value is null or undefined, or its message has no
\* includes.
CatchAll(error) ==
    LET message == GetProp(error, KMessage)
    IN  IF message.t \notin {"null", "undefined", "str", "arr"} THEN TypeError
        ELSE IF MessageIncludes(message, PatApiKey)
        THEN Failure(500, Fixed("API key hatasi"), Fixed("Gemini API key gecersiz veya eksik"))
        ELSE IF MessageIncludes(message, PatQuota)
        THEN Failure(500, Fixed("API kotasi asildi"), Fixed("Gunluk API kullanim limiti doldu"))
        ELSE IF MessageIncludes(message, PatInvalid)
        THEN Failure(500, Fixed("Gecersiz dosya formati"), Fixed("Dosya formati okunamadi veya bozuk"))
        ELSE Failure(500, Fixed("Analiz sirasinda bir hata olustu"), message)

\* NextResponse.json({success: true, analysis, ...}): the body as the client
\* reads it, the analysis as JSON.stringify writes it.
Success(analysis, file, reward) ==
    [status |-> 200,
     body |-> [success |-> TRUE,
               analysis |-> Stringified(analysis),
               fileName |-> file.name,
               fileSize |-> file.size,
               fileType |-> file.type,
               tokenReward |-> [earned |-> reward.earnedTokens,
                                total |-> reward.totalTokens,
                                isNewUser |-> reward.isNewUser]]]

(***************************************************************************)
(* The environment: the requests a client sends, the texts the model       *)
(* service returns, the results of the reward ledger, and the errors a     *)
(* collaborator throws.                                                    *)
(***************************************************************************)

\* "0xA1"
Wallet ==
    <<"0", "x", "A", "1">>

\* "Invoice"
Invoice ==
    <<"I", "n", "v", "o", "i", "c", "e">>

\* "Blood Test"
BloodTest ==
    <<"B", "l", "o", "o", "d", " ", "T", "e", "s", "t">>

\* "No medical data"
NoData ==
    <<"N", "o", " ", "m", "e", "d", "i", "c", "a", "l", " ", "d", "a", "t",
      "a">>

\* "title"
KTitle ==
    <<"t", "i", "t", "l", "e">>

\* "Sorry, I cannot read this file."
Sorry ==
    <<"S", "o", "r", "r", "y", ",", " ", "I", " ", "c", "a", "n", "n", "o",
      "t", " ", "r", "e", "a", "d", " ", "t", "h", "i", "s", " ", "f", "i",
      "l", "e", ".">>

\* The message of V8's TypeError for null.isHealthDocument.
MsgNullProp ==
    <<"C", "a", "n", "n", "o", "t", " ", "r", "e", "a", "d", " ", "p", "r",
      "o", "p", "e", "r", "t", "i", "e", "s", " ", "o", "f", " ", "n", "u",
      "l", "l", " ", "(", "r", "e", "a", "d", "i", "n", "g", " ", "'", "i",
      "s", "H", "e", "a", "l", "t", "h", "D", "o", "c", "u", "m", "e", "n",
      "t", "'", ")">>

\* The message of V8's TypeError for a template literal that holds an object
\* without a callable toString.
MsgToPrimitive ==
    <<"C", "a", "n", "n", "o", "t", " ", "c", "o", "n", "v", "e", "r", "t",
      " ", "o", "b", "j", "e", "c", "t", " ", "t", "o", " ", "p", "r", "i",
      "m", "i", "t", "i", "v", "e", " ", "v", "a", "l", "u", "e">>

\* "It is an "invoice"" (the word in double quotes)
ItIsAnInvoice ==
    <<"I", "t", " ", "i", "s", " ", "a", "n", " ", "\"", "i", "n", "v", "o",
      "i", "c", "e", "\"">>

\* Writers of JSON text, for the replies below: a string is written with its
\* quotes and backslashes escaped.
Quoted(chars) ==
    LET Piece(c) == IF c \in {"\"", "\\"} THEN <<"\\", c>> ELSE <<c>>
        pieces == [k \in 1..Len(chars) |-> Piece(chars[k])]
        Flat[k \in 0..Len(chars)] == IF k = 0 THEN <<>> ELSE Flat[k - 1] \o pieces[k]
    IN  <<"\"">> \o Flat[Len(chars)] \o <<"\"">>
Member(key, valueText) == Quoted(key) \o <<":", " ">> \o valueText
RECURSIVE Members(_)
Members(ms) ==
    IF Len(ms) = 1 THEN ms[1] ELSE ms[1] \o <<",", " ">> \o Members(Tail(ms))
Object(ms) == <<"{">> \o Members(ms) \o <<"}">>

Verdict(flagText, confidence, documentType, reason) ==
    Object(<< Member(KIsHealthDocument, flagText),
              Member(KConfidence, NatToString(confidence)),
              Member(KDocumentType, Quoted(documentType)),
              Member(KReason, Quoted(reason)) >>)

VerdictHealth == Verdict(LitTrue, 92, BloodTest, BloodTest)
VerdictNotHealth == Verdict(LitFalse, 95, Invoice, NoData)

\* A verdict whose confidence has a fraction and whose reason has escapes.
VerdictDecimal ==
    Object(<< Member(KIsHealthDocument, LitFalse),
              Member(KConfidence, <<"9", "2", ".", "5">>),
              Member(KDocumentType, Quoted(Invoice)),
              Member(KReason, Quoted(ItIsAnInvoice)) >>)

\* A verdict whose confidence is written with more digits than a double
\* holds: the number is 92.5.
VerdictRounded ==
    Object(<< Member(KIsHealthDocument, LitFalse),
              Member(KConfidence,
                     <<"9", "2", ".", "5", "0", "0", "0", "0", "0", "0", "0", "0",
                       "0", "0", "0", "0", "0", "0", "0", "0", "1">>),
              Member(KDocumentType, Quoted(Invoice)),
              Member(KReason, Quoted(NoData)) >>)

\* A reply whose isHealthDocument is a number below every double but zero.
VerdictTiny ==
    Verdict(<<"2", "e", "-", "3", "2", "4">>, 90, Invoice, NoData)

\* A reply that gives isHealthDocument twice, false and then true.
VerdictTwice ==
    Object(<< Member(KIsHealthDocument, LitFalse),
              Member(KConfidence, <<"7", "0">>),
              Member(KIsHealthDocument, LitTrue) >>)

\* A reply whose documentType is an object with a member toString.
VerdictObjectType ==
    Object(<< Member(KIsHealthDocument, LitFalse),
              Member(KConfidence, <<"9", "0">>),
              Member(KDocumentType, Object(<<Member(KToString, <<"1">>)>>)),
              Member(KReason, Quoted(NoData)) >>)

\* What the model service answers to the classification prompt, before any
\* fence: the two verdicts asked for, a refusal in prose, a reply cut off
\* mid-object, and JSON of other shapes.
CheckReplies ==
    { VerdictHealth,
      VerdictNotHealth,
      VerdictDecimal,
      VerdictRounded,
      VerdictTiny,
      VerdictTwice,
      VerdictObjectType,
      Sorry,
      SubSeq(VerdictNotHealth, 1, 30),
      LitNull,
      Object(<<Member(KConfidence, <<"1", "0">>)>>),
      Verdict(<<"0">>, 40, Invoice, NoData),
      Verdict(Quoted(LitFalse), 80, Invoice, NoData),
      <<"[", "]">>,
      <<"7">> }

LongReplyLength == 520

AnalysisOk ==
    Object(<<Member(KTitle, Quoted(BloodTest)), Member(KConfidence, <<"0", ".", "8", "5">>)>>)

\* An analysis with a number beyond the doubles and a negative zero.
AnalysisExtremes ==
    Object(<< Member(KTitle, Quoted(BloodTest)),
              Member(KConfidence, <<"1", "e", "9", "9", "9">>),
              Member(<<"v", "a", "l", "u", "e">>, <<"-", "0">>) >>)

\* A reply cut off inside a string, LongReplyLength characters long.
AnalysisCutOff ==
    LET head == <<"{">> \o Quoted(KTitle) \o <<":", " ", "\"">>
    IN  [i \in 1..LongReplyLength |-> IF i <= Len(head) THEN head[i] ELSE "a"]

\* What the model service answers to the analysis prompt, before any fence.
AnalysisReplies == { AnalysisOk, AnalysisExtremes, Sorry, AnalysisCutOff, LitNull }

FenceKinds == {"none", "json", "plain"}

\* A reply as the model service sends it: bare, or inside a fenced code block
\* with or without the json language tag.
Wrap(content, fence) ==
    CASE fence = "none" -> content
      [] fence = "json" -> FenceJson \o <<"\n">> \o content \o <<"\n">> \o Fence
      [] fence = "plain" -> Fence \o <<"\n">> \o content \o <<"\n">> \o Fence

\* An Error with that message.
Error(message) == [t |-> "obj", m |-> << [k |-> KMessage, v |-> Str(message)] >>]

\* What a rejected await is rejected with: an Error whose message is
\* "API key not valid", "quota exceeded", "invalid argument",
\* "invalid API key" or "connect ECONNREFUSED", a value that has no
\* message (the string "boom" thrown as it is, a plain object), null or
\* undefined (Promise.reject() with no reason), or an object whose message
\* is a number or an object.
Rejections ==
    {Error(m) : m \in
       { <<"A", "P", "I", " ", "k", "e", "y", " ", "n", "o", "t", " ", "v",
           "a", "l", "i", "d">>,
         <<"q", "u", "o", "t", "a", " ", "e", "x", "c", "e", "e", "d", "e", "d">>,
         <<"i", "n", "v", "a", "l", "i", "d", " ", "a", "r", "g", "u", "m",
           "e", "n", "t">>,
         <<"i", "n", "v", "a", "l", "i", "d", " ", "A", "P", "I", " ", "k",
           "e", "y">>,
         <<"c", "o", "n", "n", "e", "c", "t", " ", "E", "C", "O", "N", "N",
           "R", "E", "F", "U", "S", "E", "D">> }}
      \cup {Str(<<"b", "o", "o", "m">>), [t |-> "obj", m |-> <<>>]}
      \cup {Null, Undefined}
      \cup {[t |-> "obj", m |-> << [k |-> KMessage, v |-> v] >>] :
              v \in {Num(7), [t |-> "obj", m |-> <<>>]}}

RewardOutcomes ==
    { [earnedTokens |-> 10, totalTokens |-> 10, isNewUser |-> TRUE],
      [earnedTokens |-> 5, totalTokens |-> 45, isNewUser |-> FALSE] }

\* The files a form may hold: of a type that is allowed or not, of a size up
\* to, at or over the limit.
Files ==
    [t : {"file"}, name : {"report.pdf"},
     type : {"application/pdf", "image/jpg", "text/plain", ""},
     size : {0, MAX_FILE_SIZE, MAX_FILE_SIZE + 1, 161 * 131072}]

\* formData() throws, or gives a form whose 'file' and 'walletAddress' fields
\* are present or null; a wallet address may be the empty string.
Requests ==
    {[bodyOk |-> FALSE, file |-> Null, walletAddress |-> Null]}
      \cup [bodyOk : {TRUE}, file : Files \cup {Null},
            walletAddress : {Null, Str(<<>>), Str(Wallet)}]

(***************************************************************************)
(* The state of one POST request.                                          *)
(***************************************************************************)

VARIABLES
    pc,              \* the await the handler is at, "done" once it has returned
    request,         \* the request received
    calls,           \* the collaborator calls made so far, in order
    checkReply,      \* the model service's reply to the classification prompt:
                     \* its content and the fence around it
    checkText,       \* the classifier's raw text
    healthCheck,     \* the verdict
    analysisReply,   \* the model service's reply to the analysis prompt
    analysisText,    \* the extractor's raw text
    parsedAnalysis,  \* the analysis parsed from it
    saved,           \* the documents HealthAnalysis.create stored
    tokenReward,     \* what rewardUserForAnalysis returned
    responses        \* the responses returned

vars == <<pc, request, calls, checkReply, checkText, healthCheck,
          analysisReply, analysisText, parsedAnalysis, saved, tokenReward,
          responses>>

DbConnectCall == "dbConnect"
ClassifierCall == "generateContent(HEALTH_DOCUMENT_CHECK_PROMPT)"
ExtractorCall == "generateContent(JSON_ANALYSIS_PROMPT)"
CreateCall == "HealthAnalysis.create"
RewardCall == "rewardUserForAnalysis"

NoReply == [content |-> <<>>, fence |-> "none"]

Fresh ==
    /\ calls = <<>>
    /\ checkReply = NoReply
    /\ analysisReply = NoReply
    /\ checkText = <<>>
    /\ healthCheck = Undefined
    /\ analysisText = <<>>
    /\ parsedAnalysis = Undefined
    /\ saved = <<>>
    /\ tokenReward = Undefined
    /\ responses = <<>>

Init ==
    /\ pc = "dbConnect"
    /\ request \in Requests
    /\ Fresh

Respond(r) ==
    /\ responses' = Append(responses, r)
    /\ pc' = "done"

\* A rejected await or a throw: control passes to the catch block, which
\* responds, unless the block throws: POST is then rejected in its turn and
\* returns no response (pc = "threw").
Throw(error) ==
    LET r == CatchAll(error)
    IN  IF r = TypeError THEN pc' = "threw" /\ UNCHANGED responses
        ELSE Respond(r)

\* await dbConnect()
Connect ==
    /\ pc = "dbConnect"
    /\ calls' = Append(calls, DbConnectCall)
    /\ \/ pc' = "formData" /\ UNCHANGED responses
       \/ \E e \in Rejections : Throw(e)
    /\ UNCHANGED <<request, checkReply, checkText, healthCheck, analysisReply,
                   analysisText, parsedAnalysis, saved, tokenReward>>

\* await request.formData(), in its own try block
ParseForm ==
    /\ pc = "formData"
    /\ IF request.bodyOk
       THEN pc' = "validate" /\ UNCHANGED responses
       ELSE Respond(InvalidRequestFormat)
    /\ UNCHANGED <<request, calls, checkReply, checkText, healthCheck,
                   analysisReply, analysisText, parsedAnalysis, saved, tokenReward>>

\* The checks on file and walletAddress
Validate ==
    /\ pc = "validate"
    /\ LET file == request.file
           walletAddress == request.walletAddress
       IN  IF Falsy(file) THEN Respond(MissingFile)
           ELSE IF Falsy(walletAddress) THEN Respond(MissingWallet)
           ELSE IF ~ArrayIncludes(ALLOWED_FILE_TYPES, file.type)
                THEN Respond(UnsupportedFileType(file.type))
           ELSE IF file.size > MAX_FILE_SIZE THEN Respond(FileTooLarge(file.size))
           ELSE pc' = "arrayBuffer" /\ UNCHANGED responses
    /\ UNCHANGED <<request, calls, checkReply, checkText, healthCheck,
                   analysisReply, analysisText, parsedAnalysis, saved, tokenReward>>

\* await file.arrayBuffer(), and the base64 text of the bytes
ReadFile ==
    /\ pc = "arrayBuffer"
    /\ \/ pc' = "checkPrompt" /\ UNCHANGED responses
       \/ \E e \in Rejections : Throw(e)
    /\ UNCHANGED <<request, calls, checkReply, checkText, healthCheck,
                   analysisReply, analysisText, parsedAnalysis, saved, tokenReward>>

\* STEP 1: await model.generateContent([HEALTH_DOCUMENT_CHECK_PROMPT, ...])
\* and checkResponse.text(), either of which may throw
CallClassifier(contents) ==
    /\ pc = "checkPrompt"
    /\ calls' = Append(calls, ClassifierCall)
    /\ \/ \E c \in contents, f \in FenceKinds :
            /\ checkReply' = [content |-> c, fence |-> f]
            /\ checkText' = Wrap(c, f)
            /\ pc' = "healthCheck"
            /\ UNCHANGED responses
       \/ /\ \E e \in Rejections : Throw(e)
          /\ UNCHANGED <<checkReply, checkText>>
    /\ UNCHANGED <<request, healthCheck, analysisReply, analysisText,
                   parsedAnalysis, saved, tokenReward>>

\* Parse the verdict; reject a document that is not health-related
CheckHealthDocument ==
    /\ pc = "healthCheck"
    /\ healthCheck' = ParseHealthCheck(checkText)
    /\ LET isHealthDocument == GetProp(healthCheck', KIsHealthDocument)
           shown == {GetProp(healthCheck', key) : key \in {KDocumentType, KConfidence, KReason}}
       IN  IF isHealthDocument = TypeError THEN Throw(Error(MsgNullProp))
           ELSE IF Falsy(isHealthDocument)
                THEN IF \E value \in shown : Unprintable(value)
                     THEN Throw(Error(MsgToPrimitive))
                     ELSE Respond(NotHealthDocument(healthCheck'))
           ELSE pc' = "analysisPrompt" /\ UNCHANGED responses
    /\ UNCHANGED <<request, calls, checkReply, checkText, analysisReply,
                   analysisText, parsedAnalysis, saved, tokenReward>>

\* STEP 2: await model.generateContent([JSON_ANALYSIS_PROMPT, ...]) and
\* response.text(), either of which may throw
CallExtractor(contents) ==
    /\ pc = "analysisPrompt"
    /\ calls' = Append(calls, ExtractorCall)
    /\ \/ \E c \in contents, f \in FenceKinds :
            /\ analysisReply' = [content |-> c, fence |-> f]
            /\ analysisText' = Wrap(c, f)
            /\ pc' = "parseAnalysis"
            /\ UNCHANGED responses
       \/ /\ \E e \in Rejections : Throw(e)
          /\ UNCHANGED <<analysisReply, analysisText>>
    /\ UNCHANGED <<request, checkReply, checkText, healthCheck, parsedAnalysis,
                   saved, tokenReward>>

\* Parse JSON response, or return the parse error with the raw text
ParseAnalysis ==
    /\ pc = "parseAnalysis"
    /\ LET parsed == JSONParse(CleanText(analysisText))
       IN  IF parsed = SyntaxError
           THEN Respond(AnalysisParseError(analysisText)) /\ UNCHANGED parsedAnalysis
           ELSE parsedAnalysis' = parsed /\ pc' = "create" /\ UNCHANGED responses
    /\ UNCHANGED <<request, calls, checkReply, checkText, healthCheck,
                   analysisReply, analysisText, saved, tokenReward>>

\* await HealthAnalysis.create({...})
CreateAnalysis ==
    /\ pc = "create"
    /\ calls' = Append(calls, CreateCall)
    /\ \/ /\ saved' = Append(saved, [walletAddress |-> request.walletAddress.s,
                                     fileName |-> request.file.name,
                                     fileSize |-> request.file.size,
                                     fileType |-> request.file.type,
                                     format |-> "json",
                                     analysisData |-> parsedAnalysis])
          /\ pc' = "reward"
          /\ UNCHANGED responses
       \/ /\ \E e \in Rejections : Throw(e)
          /\ UNCHANGED saved
    /\ UNCHANGED <<request, checkReply, checkText, healthCheck, analysisReply,
                   analysisText, parsedAnalysis, tokenReward>>

\* await rewardUserForAnalysis(walletAddress), then the success envelope
RewardUser ==
    /\ pc = "reward"
    /\ calls' = Append(calls, RewardCall)
    /\ \/ \E r \in RewardOutcomes :
            /\ tokenReward' = r
            /\ Respond(Success(parsedAnalysis, request.file, r))
       \/ /\ \E e \in Rejections : Throw(e)
          /\ UNCHANGED tokenReward
    /\ UNCHANGED <<request, checkReply, checkText, healthCheck, analysisReply,
                   analysisText, parsedAnalysis, saved>>

Next ==
    \/ Connect
    \/ ParseForm
    \/ Validate
    \/ ReadFile
    \/ CallClassifier(CheckReplies)
    \/ CheckHealthDocument
    \/ CallExtractor(AnalysisReplies)
    \/ ParseAnalysis
    \/ CreateAnalysis
    \/ RewardUser

Spec == Init /\ [][Next]_vars

(***************************************************************************)
(* FenceSpec: one valid request whose two model replies each range over    *)
(* the verdict or analysis asked for and every text of at most MaxChunks   *)
(* chunks, bare or fenced.  The two replies vary independently, so the     *)
(* states number the square of the texts.                                  *)
(***************************************************************************)

MaxChunks == 2

RECURSIVE TextsOf(_)
TextsOf(n) ==
    IF n = 0 THEN {<<>>}
    ELSE LET shorter == TextsOf(n - 1)
         IN  shorter \cup {t \o c : t \in shorter,
                                      c \in { <<BT>>, Fence, <<"j", "s", "o", "n">>,
                                              <<"\n">>, <<"1">>, <<"\"">> }}

FenceTexts == TextsOf(MaxChunks)

FenceInit ==
    /\ pc = "dbConnect"
    /\ request = [bodyOk |-> TRUE,
                  file |-> [t |-> "file", name |-> "report.pdf",
                            type |-> "application/pdf", size |-> 0],
                  walletAddress |-> Str(Wallet)]
    /\ Fresh

FenceNext ==
    \/ Connect
    \/ ParseForm
    \/ Validate
    \/ ReadFile
    \/ CallClassifier(FenceTexts \cup {VerdictHealth})
    \/ CheckHealthDocument
    \/ CallExtractor(FenceTexts \cup {AnalysisOk})
    \/ ParseAnalysis
    \/ CreateAnalysis
    \/ RewardUser

FenceSpec == FenceInit /\ [][FenceNext]_vars

(***************************************************************************)
(* The claims.                                                             *)
(***************************************************************************)

Done == pc = "done"
Response == responses[1]
\* The label of a failure envelope, "" for a success envelope.
ErrorLabel(r) == IF "error" \in DOMAIN r.body THEN r.body.error.text ELSE ""
Called(c) == \E i \in 1..Len(calls) : calls[i] = c
Count(c) == Cardinality({i \in 1..Len(calls) : calls[i] = c})

\* The classifier's text has come back and the verdict has been acted on.
Classified ==
    /\ checkReply # NoReply
    /\ pc \notin {"dbConnect", "formData", "validate", "arrayBuffer", "checkPrompt",
                  "healthCheck"}

\* The extractor's text has come back and has been parsed.
Extracted ==
    /\ analysisReply # NoReply
    /\ pc \notin {"dbConnect", "formData", "validate", "arrayBuffer", "checkPrompt",
                  "healthCheck", "analysisPrompt", "parseAnalysis"}

\* The isHealthDocument member of a verdict, Undefined when it has none.
FlagOf(verdict) ==
    IF verdict.t = "obj" THEN GetProp(verdict, KIsHealthDocument) ELSE Undefined

\* C1: when the classifier's verdict says isHealthDocument = false, the
\* extractor, the create operation and the reward ledger are never called, and
\* the response is a 400 failure envelope whose details hold the verdict's
\* documentType and confidence.
C1_NotHealthRejected ==
    (Classified /\ FlagOf(healthCheck) = Bool(FALSE)) =>
        /\ Done
        /\ Len(responses) = 1
        /\ Response.status = 400
        /\ Response.body.success = FALSE
        /\ ErrorLabel(Response) = "This document is not health-related"
        /\ Response.body.details.args[1] = JsString(GetProp(healthCheck, KDocumentType))
        /\ Response.body.details.args[2] = JsString(GetProp(healthCheck, KConfidence))
        /\ checkReply.content = VerdictNotHealth =>
               /\ Response.body.details.args[1] = Invoice
               /\ Response.body.details.args[2] = <<"9", "5">>
        /\ checkReply.content = VerdictDecimal =>
               /\ Response.body.details.args[1] = Invoice
               /\ Response.body.details.args[2] = <<"9", "2", ".", "5">>
               /\ Response.body.details.args[3] = ItIsAnInvoice
        /\ checkReply.content = VerdictRounded =>
               /\ Response.body.details.args[1] = Invoice
               /\ Response.body.details.args[2] = <<"9", "2", ".", "5">>
        /\ ~Called(ExtractorCall)
        /\ ~Called(CreateCall)
        /\ ~Called(RewardCall)
        /\ saved = <<>>

\* C2: when the classifier's text is not valid JSON after fence-stripping, the
\* handler neither rejects nor fails: the verdict is the default one
\* {isHealthDocument: true, confidence: 50, documentType: "Unknown",
\* reason: "Could not verify document type"} and the extractor is invoked next.
C2_UnparsableVerdictDefaults ==
    (Classified /\ JSONParse(CleanText(checkText)) = SyntaxError) =>
        /\ healthCheck.t = "obj"
        /\ Len(healthCheck.m) = 4
        /\ GetProp(healthCheck, KIsHealthDocument) = Bool(TRUE)
        /\ GetProp(healthCheck, KConfidence) = Num(50)
        /\ GetProp(healthCheck, KDocumentType) = Str(Unknown)
        /\ GetProp(healthCheck, KReason) = Str(CouldNotVerify)
        /\ pc = "analysisPrompt" \/ Called(ExtractorCall)
        /\ pc = "analysisPrompt" => responses = <<>> /\ ENABLED CallExtractor(AnalysisReplies)

C2_Witness ==
    /\ pc = "parseAnalysis"
    /\ checkReply.content = Sorry
    /\ healthCheck = DefaultHealthCheck
    /\ Called(ExtractorCall)

\* C3: when the extractor's text is not valid JSON after fence-stripping, the
\* response is the 500 failure envelope 'Failed to parse AI analysis' whose
\* details hold the first 500 characters of the raw text (all of it when it is
\* shorter) before the ellipsis, and neither the create operation nor the
\* reward ledger is called.
C3_UnparsableAnalysisFails ==
    (Extracted /\ JSONParse(CleanText(analysisText)) = SyntaxError) =>
        /\ Done
        /\ Len(responses) = 1
        /\ Response.status = 500
        /\ Response.body.success = FALSE
        /\ ErrorLabel(Response) = "Failed to parse AI analysis"
        /\ Response.body.details.text =
             "The AI returned an invalid response format. Raw response: ${1}..."
        /\ LET excerpt == Response.body.details.args[1]
           IN  /\ Len(excerpt) <= 500
               /\ Len(excerpt) <= Len(analysisText)
               /\ excerpt = SubSeq(analysisText, 1, Len(excerpt))
               /\ Len(excerpt) = 500 \/ Len(excerpt) = Len(analysisText)
        /\ ~Called(CreateCall)
        /\ ~Called(RewardCall)
        /\ saved = <<>>

C3_Witness ==
    /\ Done
    /\ analysisReply.content = AnalysisCutOff
    /\ Len(analysisText) > 500
    /\ Len(responses) = 1
    /\ Response.status = 500
    /\ Len(Response.body.details.args[1]) = 500

\* The request fails validation: no multipart body, no file, no wallet address,
\* a type outside the allow-list, or more than 20 MiB.
FailsValidation(req) ==
    \/ ~req.bodyOk
    \/ req.file = Null
    \/ req.walletAddress = Null
    \/ req.walletAddress = Str(<<>>)
    \/ req.file.type \notin {ALLOWED_FILE_TYPES[i] : i \in 1..Len(ALLOWED_FILE_TYPES)}
    \/ req.file.size > 20 * 1024 * 1024

\* C4: a request that fails validation is answered with status 400 and with no
\* call to the model service, the database or the reward ledger made, whatever
\* the state of those collaborators.
C4_ValidationBeforeCollaborators ==
    (Done /\ FailsValidation(request)) =>
        /\ Len(responses) = 1
        /\ Response.status = 400
        /\ calls = <<>>

\* C5: a well-formed upload (file and wallet address present) whose declared
\* type is outside the allow-list is rejected with UnsupportedFileType, status
\* 400, whatever its size, and no model call is made.
C5_UnsupportedTypeRejected ==
    (/\ Done
     /\ request.bodyOk
     /\ request.file # Null
     /\ request.walletAddress = Str(Wallet)
     /\ request.file.type \notin {ALLOWED_FILE_TYPES[i] : i \in 1..Len(ALLOWED_FILE_TYPES)}) =>
        /\ Len(responses) = 1
        /\ Response.status = 400
        /\ Response.body.error =
             [text |-> "Desteklenmeyen dosya tipi: ${file.type}", args |-> << <<request.file.type>> >>]
        /\ ~Called(ClassifierCall)
        /\ ~Called(ExtractorCall)

\* text is "d.dd" or "dd.dd", the decimal h / 100.
IsHundredths(text, h) ==
    text = NatToString(h \div 100) \o <<".">> \o NatToString((h % 100) \div 10)
             \o NatToString(h % 10)

\* C6: an upload of an allowed type (file and wallet address present) of more
\* than 20 MiB is rejected with FileTooLarge, status 400, the details giving its
\* size in MiB to two decimal places; one of exactly 20 MiB is not rejected for
\* its size.
C6_OversizedRejected ==
    (/\ Done
     /\ request.bodyOk
     /\ request.file # Null
     /\ request.walletAddress = Str(Wallet)
     /\ request.file.type \in {ALLOWED_FILE_TYPES[i] : i \in 1..Len(ALLOWED_FILE_TYPES)}) =>
        /\ request.file.size > 20 * 1024 * 1024 =>
             /\ Len(responses) = 1
             /\ Response.status = 400
             /\ ErrorLabel(Response) = "Dosya boyutu cok buyuk"
             /\ \E h \in 2000..2100 :
                  /\ IsHundredths(Response.body.details.args[2], h)
                  /\ 2 * 100 * (request.file.size - 20 * 1024 * 1024)
                       >= (2 * (h - 2000) - 1) * 1024 * 1024
                  /\ 2 * 100 * (request.file.size - 20 * 1024 * 1024)
                       <= (2 * (h - 2000) + 1) * 1024 * 1024
        /\ request.file.size = 20 * 1024 * 1024 =>
             ErrorLabel(Response) # "Dosya boyutu cok buyuk"

\* C7: every response is exactly one variant of the envelope: success with
\* analysis, fileName, fileSize, fileType and tokenReward and neither error nor
\* details, or failure with both error and details and no success field.
C7_EnvelopeVariants ==
    Done =>
        /\ Len(responses) = 1
        /\ IF Response.body.success
           THEN DOMAIN Response.body =
                  {"success", "analysis", "fileName", "fileSize", "fileType", "tokenReward"}
           ELSE DOMAIN Response.body = {"success", "error", "details"}

\* C8: a reply wrapped in a fenced code block, with or without the json tag,
\* cleans and parses to the same outcome (the same value, or a parse failure)
\* as the reply bare, for the classifier's reply and for the extractor's.
C8_FenceRoundTrip ==
    /\ Classified =>
         /\ JSONParse(CleanText(checkText)) = JSONParse(CleanText(checkReply.content))
         /\ healthCheck = ParseHealthCheck(checkReply.content)
    /\ Extracted =>
         LET bare == JSONParse(CleanText(analysisReply.content))
         IN  IF bare = SyntaxError
             THEN /\ Done
                  /\ ErrorLabel(Response) = "Failed to parse AI analysis"
                  /\ parsedAnalysis = Undefined
             ELSE parsedAnalysis = bare

C8_Witness ==
    /\ Extracted
    /\ checkReply = [content |-> VerdictHealth, fence |-> "json"]
    /\ healthCheck = JSONParse(VerdictHealth)
    /\ analysisReply = [content |-> AnalysisOk, fence |-> "plain"]
    /\ parsedAnalysis = JSONParse(AnalysisOk)
    /\ GetProp(parsedAnalysis, KTitle) = Str(BloodTest)

\* A reply that itself opens with a fence, inside a fenced code block, after
\* a classifier reply that does not parse bare or fenced.
C8_WitnessFenceInside ==
    /\ Extracted
    /\ checkReply = [content |-> <<"j", "s", "o", "n", "1">>, fence |-> "plain"]
    /\ healthCheck = DefaultHealthCheck
    /\ analysisReply = [content |-> Fence \o <<"1">>, fence |-> "json"]
    /\ parsedAnalysis = Num(1)

Stages == <<ClassifierCall, ExtractorCall, CreateCall, RewardCall>>

\* C9: the stages run in the order classifier, extractor, create, reward, each
\* at most once and each only after the one before it succeeded; status 200 is
\* returned only after all four, with the tokenReward the ledger returned; the
\* ledger is never called without a persisted analysis; a reward failure after
\* a successful persist gives a 500 failure envelope.
C9_StagesInOrder ==
    /\ Len(calls) >= 1 => calls[1] = DbConnectCall
    /\ \A i \in 1..Len(Stages) : Count(Stages[i]) <= 1
    /\ \A i \in 2..Len(calls) : calls[i] = Stages[i - 1]
    /\ Called(ExtractorCall) =>
         checkReply # NoReply /\ ~Falsy(FlagOf(healthCheck))
    /\ Called(CreateCall) =>
         analysisReply # NoReply /\ parsedAnalysis = JSONParse(CleanText(analysisText))
                                 /\ parsedAnalysis # SyntaxError
    /\ Called(RewardCall) =>
         /\ Len(saved) = 1
         /\ saved[1].analysisData = parsedAnalysis
         /\ saved[1].walletAddress = request.walletAddress.s
    /\ Len(saved) <= 1
    /\ (Done /\ Response.status = 200) =>
         /\ Len(responses) = 1
         /\ calls = <<DbConnectCall>> \o Stages
         /\ Response.body.success
         /\ tokenReward \in RewardOutcomes
         /\ Response.body.tokenReward.earned = tokenReward.earnedTokens
         /\ Response.body.tokenReward.total = tokenReward.totalTokens
         /\ Response.body.tokenReward.isNewUser = tokenReward.isNewUser
    /\ (Called(RewardCall) /\ tokenReward = Undefined) =>
         /\ Len(saved) = 1
         /\ Done
         /\ Len(responses) = 1
         /\ Response.status = 500
         /\ Response.body.success = FALSE

\* C10: whatever text the classifier returns, the classification stage ends
\* either in the 400 rejection, taken exactly when the parsed verdict's
\* isHealthDocument is false, or in the invocation of the extractor; no reply
\* makes it end in a 500 failure envelope.
C10_ClassificationOutcomes ==
    Classified =>
        IF FlagOf(healthCheck) = Bool(FALSE)
        THEN Done /\ Response.status = 400 /\ ~Called(ExtractorCall)
        ELSE pc = "analysisPrompt" \/ Called(ExtractorCall)

=============================================================================
